---- MODULE Spec2Model ----
(***************************************************************************)
(* Model of image_classify.py: a Streamlit script that is re-run from top  *)
(* to bottom on every user interaction.  One script run is one action.     *)
(* The state that survives a run is st.session_state, the two text files   *)
(* feedback.txt and user_comments.txt, and the wall clock.  What a run     *)
(* rendered (the page, the download button, whether it raised) is kept in  *)
(* the variable out.                                                       *)
(*                                                                         *)
(* Python indexes classes 0..N-1; the model indexes them 1..N.  An         *)
(* optional value (None, an absent widget) is <<>> and a present value v   *)
(* is <<v>>.                                                               *)
(***************************************************************************)
EXTENDS Integers, Sequences, FiniteSets, TLC

\* ------------------------------------------------------------------ bounds

\* Number of classes of the classifier (1000 in ImageNet).
NumClasses == 6
\* Logits of the model output range over 0..MaxLogit.
MaxLogit == 2
\* The two text files together hold at most MaxLines lines.
MaxLines == 2
\* The clock runs over 0..MaxClock.
MaxClock == 1

\* The slice [-5:] of make_prediction.
TopK == 5

Classes == 1..NumClasses

\* --------------------------------------------------------- make_prediction

Max(a, b) == IF a >= b THEN a ELSE b

RECURSIVE Pow2(_)
Pow2(n) == IF n = 0 THEN 1 ELSE 2 * Pow2(n - 1)

RECURSIVE SumTo(_, _)
SumTo(f, n) == IF n = 0 THEN 0 ELSE f[n] + SumTo(f, n - 1)

\* probs.softmax(1): exp(x_i) / sum_j exp(x_j), here to the base 2 and as the
\* exact fraction num/den; all entries share the denominator.
softmax(logits) ==
    LET e == [i \in DOMAIN logits |-> Pow2(logits[i])]
        s == SumTo(e, Len(logits))
    IN  [i \in DOMAIN logits |-> [num |-> e[i], den |-> s]]

\* p <= q for two fractions.
ProbLeq(p, q) == p.num * q.den <= q.num * p.den

RECURSIVE AscendingOrders(_, _)
\* All orders of the indices in S that put probs in ascending order: a least
\* entry of S first, then an ascending order of the rest.
AscendingOrders(S, probs) ==
    IF S = {} THEN {<<>>}
    ELSE UNION {{<<x>> \o t : t \in AscendingOrders(S \ {x}, probs)} :
                x \in {y \in S : \A z \in S : ProbLeq(probs[y], probs[z])}}

\* probs.argsort(): a permutation of the indices that puts probs in ascending
\* order.  numpy's default sort is not stable, so the order among equal
\* entries is any one; it is the same for the two calls of one evaluation.
argsort(probs) == AscendingOrders(DOMAIN probs, probs)

\* s[-5:]
LastFive(s) == SubSeq(s, Max(1, Len(s) - TopK + 1), Len(s))

\* s[:5], the slice a sign slip would take.
FirstFive(s) == SubSeq(s, 1, IF Len(s) < TopK THEN Len(s) ELSE TopK)

\* s[::-1]
Reversed(s) == [k \in 1..Len(s) |-> s[Len(s) + 1 - k]]

\* make_prediction with the lowest five classes (argsort()[:5]).
make_prediction_lowest(logits, order) ==
    LET probs == softmax(logits)
        idxs  == Reversed(FirstFive(order))
    IN  [prob |-> [k \in 1..Len(idxs) |-> probs[idxs[k]]], idxs |-> idxs]

\* make_prediction(model, processed_img), given the model output `logits` and
\* the permutation `order` that probs.argsort() returns.
make_prediction(logits, order) ==
    LET probs == softmax(logits)
        idxs  == Reversed(LastFive(order))
    IN  [prob |-> [k \in 1..Len(idxs) |-> probs[idxs[k]]], idxs |-> idxs]


\* ------------------------------------------------- images and the libraries

\* Files a user can hand to the uploader.  The uploader filters by the
\* extension of the name only; the content decides what Image.open detects.
\* bytes: the container format, the pixel mode, the picture (px) and the
\* encoder settings and metadata the file was written with (enc).  f.jpeg is
\* what the page's own download of a.jpg holds.
UploadedFiles ==
    { [name |-> "a.jpg",  bytes |-> [format |-> "JPEG", mode |-> "RGB", px |-> 3, enc |-> "camera"]],
      [name |-> "f.jpeg", bytes |-> [format |-> "JPEG", mode |-> "RGB", px |-> 2, enc |-> "pil"]],
      [name |-> "b.png",  bytes |-> [format |-> "PNG",  mode |-> "RGB", px |-> 1, enc |-> "pil"]],
      [name |-> "g.jpg",  bytes |-> [format |-> "JPEG", mode |-> "L",   px |-> 2, enc |-> "pil"]],
      [name |-> "d.png",  bytes |-> [format |-> "PSD",  mode |-> "RGB", px |-> 5, enc |-> "psd"]],
      [name |-> "e.jpg",  bytes |-> [format |-> "corrupt", mode |-> "", px |-> 0, enc |-> ""]] }

\* The value of st.file_uploader: None or one uploaded file.
Uploads == {<<>>} \cup {<<f>> : f \in UploadedFiles}

\* Image.open raises UnidentifiedImageError on content no plugin identifies.
Identifiable(file) == file.bytes.format # "corrupt"

\* Image.open(upload): the decoded image with its detected format.
Image_open(file) ==
    [format |-> file.bytes.format, mode |-> file.bytes.mode, px |-> file.bytes.px]

\* str.lower() on the detected format.
Lower(fmt) ==
    CASE fmt = "JPEG" -> "jpeg" [] fmt = "PNG" -> "png" [] fmt = "PSD" -> "psd"
      [] OTHER -> fmt

\* str.upper() on the lower-cased format.
Upper(ext) ==
    CASE ext = "jpeg" -> "JPEG" [] ext = "png" -> "PNG" [] ext = "psd" -> "PSD"
      [] OTHER -> ext

\* preprocess_func normalises with a three-channel mean and raises a
\* RuntimeError on an image whose mode does not give three channels.
Preprocessable(img) == img.mode = "RGB"

\* The pretrained network's output for a picture (external, deterministic);
\* pictures that differ little get the same output.
ModelOutput(img) == [i \in Classes |-> (i + img.px \div 2) % NumClasses]

\* categories: the class names of the weights' metadata.
categories == [i \in Classes |-> "class" \o ToString(i)]

\* interpret_prediction: the attribution of the image for the target class,
\* transposed to height x width x channel.
interpret_prediction(img, target) ==
    [of |-> img.px, target |-> target, layout |-> "HWC"]

\* The formats img.save can write; for any other it raises KeyError.
SaveFormats == {"JPEG", "PNG"}

\* JPEG is lossy: what the encoder keeps of a picture.
Quantized(px) == px - (px % 2)

\* img.save(img_byte_arr, format=...); getvalue(): the image encoded anew with
\* the encoder's default settings and without the source file's metadata.
Encode(img, format) ==
    [format |-> format, mode |-> img.mode,
     px |-> IF format = "JPEG" THEN Quantized(img.px) ELSE img.px, enc |-> "pil"]

\* f"{top_category}.{img_format}" with the last of the five classes.
NewFilename_last(idxs, img_format) == <<categories[idxs[Len(idxs)]], ".", img_format>>

\* top_category = categories[idxs][0]; new_filename = f"{top_category}.{img_format}"
NewFilename(idxs, img_format) == <<categories[idxs[1]], ".", img_format>>

\* ------------------------------------------------------------------- state

VARIABLES
    ss,        \* st.session_state: a mapping from the keys set so far
    feedback,  \* feedback.txt, a sequence of lines
    comments,  \* user_comments.txt, a sequence of lines
    now,       \* datetime.now()
    out,       \* what the last script run rendered
    renamed,   \* history: the new_filename set by the session's latest run through line 95
    logits,    \* make_prediction alone: the model output handed in
    pred       \* make_prediction alone: <<>> or the result returned

vars == <<ss, feedback, comments, now, out, renamed, logits, pred>>

IC == "Image Classifier"
CU == "Connect to Us"

\* A session state with no key.
EmptySession == [k \in {} |-> k]

\* st.session_state.k = v
Put(s, k, v) == [x \in DOMAIN s \cup {k} |-> IF x = k THEN v ELSE s[x]]

\* The text of the comment box: its lines (the text split at line breaks).
Comments == {<<"">>, <<"two", "lines">>}

Clicks == {"none", "like", "dislike", "submit"}

\* What a run of the Image Classifier page rendered.
Rendered(upload, raised, processed, classified, download) ==
    [page |-> IC, raised |-> raised, upload |-> upload, processed |-> processed,
     classified |-> classified, download |-> download,
     likeOffered |-> FALSE, click |-> "none", comment |-> <<>>]

\* The first script run of a session: the sidebar's default page, no upload.
FirstRun == Rendered(<<>>, FALSE, <<>>, <<>>, <<>>)

Init ==
    /\ ss = EmptySession
    /\ feedback = <<>>
    /\ comments = <<>>
    /\ now = 0
    /\ out = FirstRun
    /\ renamed = <<>>
    /\ logits = <<>>
    /\ pred = <<>>

\* ----------------------------------------------------- the two text files

\* A line of a text file: stamp is <<t>> when the line starts with the
\* timestamp t and <<>> when it starts with none; text is what follows.

\* f"Like for {new_filename}\n" and f"Dislike for {new_filename}\n"
FeedbackLine(kind, new_filename) ==
    [stamp |-> <<>>, text |-> <<kind, " for ">> \o new_filename]

\* The comment written with a timestamp taken when the session began.
CommentLines_stale(t, comment) ==
    [k \in 1..Len(comment) |->
        IF k = 1 THEN [stamp |-> <<0>>, text |-> <<": ", comment[1]>>]
                 ELSE [stamp |-> <<>>, text |-> <<comment[k]>>]]

\* f"{datetime.now()}: {comment}\n": the timestamp starts the first line; a
\* line break inside the comment starts a further line of the file.
CommentLines(t, comment) ==
    [k \in 1..Len(comment) |->
        IF k = 1 THEN [stamp |-> <<t>>, text |-> <<": ", comment[1]>>]
                 ELSE [stamp |-> <<>>, text |-> <<comment[k]>>]]

\* open(path, "w"): the file is truncated before the write.
WriteText(file, lines) == lines

\* with open(path, "a") as f: f.write(...)
AppendText(file, lines) == file \o lines

\* The comment is written only when the box is not empty.
SubmitComment_nonempty(file, t, comment) ==
    IF comment = <<"">> THEN file ELSE AppendText(file, CommentLines(t, comment))

\* if st.button("Submit Comment"): the write to user_comments.txt
SubmitComment(file, t, comment) == AppendText(file, CommentLines(t, comment))

\* ------------------------------------------------ the Image Classifier page

\* img.save(BytesIO, format=img_format.upper()) always writing PNG.
SaveImage_png(img, img_format) == Encode(img, "PNG")

\* img_byte_arr = io.BytesIO(); img.save(...); img_byte_arr.getvalue()
SaveImage(img, img_format) == Encode(img, Upper(img_format))

\* The name is stored only when the session holds none yet.
StoreNewFilename_once(s, new_filename) ==
    IF "new_filename" \in DOMAIN s THEN s ELSE Put(s, "new_filename", new_filename)

\* st.session_state.new_filename = new_filename
StoreNewFilename(s, new_filename) == Put(s, "new_filename", new_filename)

\* st.download_button(label, data, file_name, mime)
DownloadButton(data, file_name, img_format) ==
    [label |-> "Download Renamed Image", data |-> data, file_name |-> file_name,
     mime |-> <<"image/", img_format>>]

\* One run of the script with the sidebar on "Image Classifier" and the
\* uploader holding `upload`.  An exception ends the run where it is raised;
\* what was stored before stays stored.
ImageClassifierPage(upload) ==
    /\ UNCHANGED <<feedback, comments, now, logits, pred>>
    /\ IF ~(upload # <<>> \/ "img" \in DOMAIN ss)
       THEN /\ ss' = ss
            /\ renamed' = renamed
            /\ out' = Rendered(upload, FALSE, <<>>, <<>>, <<>>)
       ELSE IF upload # <<>> /\ ~Identifiable(upload[1])
       THEN \* Image.open raises
            /\ ss' = ss
            /\ renamed' = renamed
            /\ out' = Rendered(upload, TRUE, <<>>, <<>>, <<>>)
       ELSE LET img  == IF upload # <<>> THEN Image_open(upload[1]) ELSE ss["img"]
                ss49 == IF upload # <<>> THEN Put(ss, "img", img) ELSE ss
                img_format == Lower(img.format)
            IN  IF ~Preprocessable(img)
                THEN \* preprocess_func raises
                     /\ ss' = ss49
                     /\ renamed' = renamed
                     /\ out' = Rendered(upload, TRUE, <<img>>, <<>>, <<>>)
                ELSE \E order \in argsort(softmax(ModelOutput(img))) :
                     LET p    == make_prediction(ModelOutput(img), order)
                         feature_imp == interpret_prediction(img, p.idxs[1])
                         ss62 == Put(Put(Put(ss49, "probs", p.prob), "idxs", p.idxs),
                                     "feature_imp", feature_imp)
                         new_filename == NewFilename(p.idxs, img_format)
                         ss95 == StoreNewFilename(ss62, new_filename)
                     IN  /\ renamed' = <<new_filename>>
                         /\ IF Upper(img_format) \notin SaveFormats
                            THEN \* img.save raises
                                 /\ ss' = ss95
                                 /\ out' = Rendered(upload, TRUE, <<img>>, <<img>>, <<>>)
                            ELSE LET img_byte_arr == SaveImage(img, img_format)
                                 IN  /\ ss' = Put(ss95, "img_byte_arr", img_byte_arr)
                                     /\ out' = Rendered(upload, FALSE, <<img>>, <<img>>,
                                           <<DownloadButton(img_byte_arr, new_filename, img_format)>>)

\* --------------------------------------------------- the Connect to Us page

\* The Connect to Us page dropping the stored image bytes of the session.
ConnectPage_forgets(click, comment) ==
    LET likeOffered == "new_filename" \in DOMAIN ss
    IN  /\ click \in {"like", "dislike"} => likeOffered
        /\ feedback' =
              IF click = "like"
              THEN AppendText(feedback, <<FeedbackLine("Like", ss["new_filename"])>>)
              ELSE IF click = "dislike"
              THEN AppendText(feedback, <<FeedbackLine("Dislike", ss["new_filename"])>>)
              ELSE feedback
        /\ comments' =
              IF click = "submit"
              THEN SubmitComment(comments, now, comment)
              ELSE comments
        /\ Len(feedback') + Len(comments') <= MaxLines
        /\ out' = [page |-> CU, raised |-> FALSE, upload |-> <<>>, processed |-> <<>>,
                   classified |-> <<>>, download |-> <<>>,
                   likeOffered |-> likeOffered, click |-> click, comment |-> comment]
        /\ ss' = [k \in DOMAIN ss \ {"img_byte_arr"} |-> ss[k]]
        /\ UNCHANGED <<now, renamed, logits, pred>>

\* One run of the script with the sidebar on "Connect to Us", the comment box
\* holding `comment`, and `click` the button whose click caused the run
\* ("none": the run has another cause).  At most one button is True in a run.
ConnectPage(click, comment) ==
    LET likeOffered == "new_filename" \in DOMAIN ss
    IN  /\ click \in {"like", "dislike"} => likeOffered
        /\ feedback' =
              IF click = "like"
              THEN AppendText(feedback, <<FeedbackLine("Like", ss["new_filename"])>>)
              ELSE IF click = "dislike"
              THEN AppendText(feedback, <<FeedbackLine("Dislike", ss["new_filename"])>>)
              ELSE feedback
        /\ comments' =
              IF click = "submit"
              THEN SubmitComment(comments, now, comment)
              ELSE comments
        /\ Len(feedback') + Len(comments') <= MaxLines
        /\ out' = [page |-> CU, raised |-> FALSE, upload |-> <<>>, processed |-> <<>>,
                   classified |-> <<>>, download |-> <<>>,
                   likeOffered |-> likeOffered, click |-> click, comment |-> comment]
        /\ UNCHANGED <<ss, now, renamed, logits, pred>>

\* ------------------------------------------------------ session and clock

\* A new browser session: an empty session state and the script's first run.
\* The files stay.
NewSession ==
    /\ ss' = EmptySession
    /\ renamed' = <<>>
    /\ out' = FirstRun
    /\ UNCHANGED <<feedback, comments, now, logits, pred>>

\* Time passes between runs.
Tick ==
    /\ now < MaxClock
    /\ now' = now + 1
    /\ UNCHANGED <<ss, feedback, comments, out, renamed, logits, pred>>

Next ==
    \/ \E upload \in Uploads : ImageClassifierPage(upload)
    \/ \E click \in Clicks, comment \in Comments : ConnectPage(click, comment)
    \/ NewSession
    \/ Tick

Spec == Init /\ [][Next]_vars

\* ------------------------------------------------- make_prediction alone

InitPred ==
    /\ ss = EmptySession
    /\ feedback = <<>>
    /\ comments = <<>>
    /\ now = 0
    /\ out = FirstRun
    /\ renamed = <<>>
    /\ logits \in [Classes -> 0..MaxLogit]
    /\ pred = <<>>

Predict ==
    /\ pred = <<>>
    /\ \E order \in argsort(softmax(logits)) :
          pred' = <<make_prediction(logits, order)>>
    /\ UNCHANGED <<ss, feedback, comments, now, out, renamed, logits>>

NextPred == Predict

SpecPred == InitPred /\ [][NextPred]_vars

\* ------------------------------------------------------------ properties

IsPrefix(s, t) == Len(s) <= Len(t) /\ SubSeq(t, 1, Len(s)) = s

Range(s) == {s[k] : k \in DOMAIN s}

\* A run of the Image Classifier page that completed with an image.
Completed == out.page = IC /\ ~out.raised /\ out.processed # <<>>

\* C1: after a run of the Image Classifier page that completes with an image,
\* the download button's file name is the name of a class of maximal
\* probability, ".", and the lower-cased detected format; its data is the
\* image encoded anew in that format; session_state.new_filename is that name.
C1_DownloadNamedAfterTopCategory ==
    Completed =>
        LET img   == out.processed[1]
            probs == softmax(ModelOutput(img))
        IN  /\ Len(out.download) = 1
            /\ ss["img"] = img
            /\ \E k \in Classes :
                  /\ \A j \in Classes : ProbLeq(probs[j], probs[k])
                  /\ out.download[1].file_name = <<categories[k], ".", Lower(img.format)>>
            /\ out.download[1].data = Encode(img, img.format)
            /\ ss["new_filename"] = out.download[1].file_name

\* C1 witness: a completed run on a JPEG taken from the session state.
C1_Witness ==
    /\ Completed
    /\ out.upload = <<>>
    /\ out.processed[1].format = "JPEG"
    /\ out.download # <<>>

\* C2: feedback.txt and user_comments.txt are append-only: in every step the
\* content of each file before the step is a prefix of its content after.
C2_AppendOnly ==
    [][IsPrefix(feedback, feedback') /\ IsPrefix(comments, comments')]_vars

\* C2 witness: a click has written to a file that already held a line.
C2_Witness ==
    /\ Len(feedback) >= 2
    /\ out.page = CU
    /\ out.click \in {"like", "dislike"}

\* C3 as stated: every line of either file carries a timestamp.
C3_EveryLineStamped ==
    /\ \A k \in DOMAIN feedback : feedback[k].stamp # <<>>
    /\ \A k \in DOMAIN comments : comments[k].stamp # <<>>

\* C3 amended: each write to user_comments.txt starts with the timestamp of
\* the moment it is written, and only its first line carries it; the lines
\* written to feedback.txt carry no timestamp.
C3_CommentWritesStamped ==
    [][/\ comments' # comments =>
            /\ Len(comments') > Len(comments)
            /\ comments'[Len(comments) + 1].stamp = <<now>>
            /\ \A k \in (Len(comments) + 2)..Len(comments') : comments'[k].stamp = <<>>
       /\ feedback' # feedback =>
            /\ Len(feedback') > Len(feedback)
            /\ \A k \in (Len(feedback) + 1)..Len(feedback') : feedback'[k].stamp = <<>>
      ]_vars

\* C3 witness: a comment written after the clock has advanced, beside a
\* feedback line.
C3_Witness ==
    /\ Len(feedback) >= 1
    /\ \E k \in DOMAIN comments : comments[k].stamp \notin {<<>>, <<0>>}

\* C4: make_prediction returns five pairwise distinct classes with their
\* softmax probabilities, in non-increasing order, the first of maximal
\* probability, and no class left out is more probable than the fifth.
C4_TopFive ==
    pred # <<>> =>
        LET r     == pred[1]
            probs == softmax(logits)
        IN  /\ Len(r.idxs) = TopK
            /\ Len(r.prob) = TopK
            /\ \A i \in 1..TopK : r.idxs[i] \in Classes /\ r.prob[i] = probs[r.idxs[i]]
            /\ \A i, j \in 1..TopK : i # j => r.idxs[i] # r.idxs[j]
            /\ \A i \in 1..(TopK - 1) : ProbLeq(r.prob[i + 1], r.prob[i])
            /\ \A c \in Classes : ProbLeq(probs[c], r.prob[1])
            /\ \A c \in Classes \ Range(r.idxs) : ProbLeq(probs[c], r.prob[TopK])

\* C4 witness: a result where a class left out ties with the fifth and the
\* five are not all equally probable.
C4_Witness ==
    /\ pred # <<>>
    /\ pred[1].prob[1] # pred[1].prob[TopK]
    /\ \E c \in Classes \ Range(pred[1].idxs) :
          softmax(logits)[c] = pred[1].prob[TopK]

\* A completed run on a freshly uploaded JPEG.
JpegUploaded ==
    /\ Completed
    /\ out.upload # <<>>
    /\ out.upload[1].bytes.format = "JPEG"
    /\ out.download # <<>>

C6_FailedImageNotRetried ==
    [][(/\ out.page = IC /\ out.raised /\ out.upload # <<>> /\ out.processed # <<>>
        /\ out'.page = IC /\ out'.upload = <<>>)
       => out'.classified # out.processed]_vars

\* "Like" for the click "like", "Dislike" for "dislike".
KindOf(click) == IF click = "like" THEN "Like" ELSE "Dislike"

\* C7: Like and Dislike are offered exactly when the session has completed a
\* run through the renaming step; each line added to feedback.txt is one
\* line, "<Like|Dislike> for <name>", with the name set by the session's most
\* recent such run, and user_comments.txt is unchanged by it.
C7_FeedbackNamesLatestRename ==
    [][/\ out'.page = CU => (out'.likeOffered <=> renamed' # <<>>)
       /\ out'.click \in {"like", "dislike"} => out'.likeOffered
       /\ feedback' # feedback =>
            /\ renamed # <<>>
            /\ out'.page = CU
            /\ out'.click \in {"like", "dislike"}
            /\ feedback' = Append(feedback,
                  [stamp |-> <<>>, text |-> <<KindOf(out'.click), " for ">> \o renamed[1]])
            /\ comments' = comments
      ]_vars

\* C7 witness: two feedback lines of one kind naming different files, the
\* second written after a further classification.
C7_Witness ==
    /\ Len(feedback) = 2
    /\ feedback[1].text[1] = feedback[2].text[1]
    /\ feedback[1].text # feedback[2].text
    /\ renamed # <<>>
    /\ out.click \in {"like", "dislike"}

\* C8 as stated: each Submit Comment click appends exactly one line.
C8_OneLinePerClick ==
    [][comments' # comments => Len(comments') = Len(comments) + 1]_vars

\* C8 amended: Submit Comment is there with or without a classified image;
\* each click appends one entry, the timestamp, ": " and the text of the
\* comment box (also the empty text), which is one line plus one line for each
\* line break of the text, and leaves feedback.txt and the session state
\* unchanged; a run of the page without a click writes nothing.
C8_SubmitAppendsEntry ==
    [][/\ comments' # comments =>
            /\ out'.page = CU
            /\ out'.click = "submit"
            /\ Len(comments') = Len(comments) + Len(out'.comment)
            /\ IsPrefix(comments, comments')
            /\ comments'[Len(comments) + 1] =
                  [stamp |-> <<now>>, text |-> <<": ", out'.comment[1]>>]
            /\ \A k \in 2..Len(out'.comment) :
                  comments'[Len(comments) + k] = [stamp |-> <<>>, text |-> <<out'.comment[k]>>]
            /\ feedback' = feedback
            /\ ss' = ss
       /\ (out'.page = CU /\ out'.click = "submit" /\ out' # out) => comments' # comments
       /\ (out'.page = CU /\ out'.click = "none") =>
            (feedback' = feedback /\ comments' = comments /\ ss' = ss)
      ]_vars

\* C8 witness: the empty comment and no classified image in the session, and
\* the click has written its line.
C8_Witness ==
    /\ out.page = CU
    /\ out.click = "submit"
    /\ out.comment = <<"">>
    /\ ss = EmptySession
    /\ Len(comments) >= 1
    /\ comments[Len(comments)].text = <<": ", "">>

\* C9: whenever the session state holds img it holds probs, idxs,
\* feature_imp, new_filename and img_byte_arr, all computed from that image.
C9_SessionCoherent ==
    "img" \in DOMAIN ss =>
        /\ {"probs", "idxs", "feature_imp", "new_filename", "img_byte_arr"} \subseteq DOMAIN ss
        /\ LET img == ss["img"]
           IN  /\ \E order \in argsort(softmax(ModelOutput(img))) :
                     /\ ss["probs"] = make_prediction(ModelOutput(img), order).prob
                     /\ ss["idxs"] = make_prediction(ModelOutput(img), order).idxs
               /\ ss["feature_imp"] = interpret_prediction(img, ss["idxs"][1])
               /\ ss["new_filename"] = NewFilename(ss["idxs"], Lower(img.format))
               /\ ss["img_byte_arr"] = Encode(img, img.format)

\* C10: a run of the Connect to Us page runs no classifier and leaves the
\* session state unchanged; a run of the Image Classifier page writes to
\* neither file; and a run of the Image Classifier page with no upload and no
\* stored image computes nothing, offers no download and leaves the session
\* state unchanged.
C10_ViewsKeepApart ==
    [][/\ out'.page \in {IC, CU}
       /\ out'.page = CU =>
            /\ ss' = ss
            /\ out'.processed = <<>>
            /\ out'.classified = <<>>
            /\ out'.download = <<>>
       /\ out'.page = IC =>
            /\ feedback' = feedback
            /\ comments' = comments
            /\ out'.click = "none"
       /\ ("img" \notin DOMAIN ss /\ out'.page = IC /\ out'.upload = <<>>) =>
            /\ ss' = ss
            /\ ~out'.raised
            /\ out'.processed = <<>>
            /\ out'.classified = <<>>
            /\ out'.download = <<>>
      ]_vars

\* C10 witness: on the Connect to Us page after a click, the session still
\* holds the image and every result of its classification.
C10_Witness ==
    /\ out.page = CU
    /\ out.click # "none"
    /\ {"img", "probs", "idxs", "feature_imp", "new_filename", "img_byte_arr"} \subseteq DOMAIN ss

====
